---- MODULE Spec2Model ----
(***************************************************************************)
(* A model of two pieces of the editor:                                    *)
(*   - the plugin registry of edit-post/api/plugin.js (PluginRegistry and  *)
(*     PluginArea), checked under RegistrySpec;                            *)
(*   - the view-options menu of packages/dataviews/src/view-actions.tsx    *)
(*     (ViewTypeMenu, PageSizeMenu, FieldsVisibilityMenu, SortMenu),       *)
(*     checked under ViewSpec.                                             *)
(* JavaScript values are tagged records; strings that the code inspects    *)
(* character by character (plugin names, property keys) are sequences of   *)
(* one-character strings.                                                  *)
(***************************************************************************)
EXTENDS Integers, Sequences, FiniteSets, TLC

VARIABLES
    \* ---- PluginRegistry (plugin.js) ----
    plugins,             \* this.plugins: own properties, key -> settings object
    pluginOrder,         \* the own keys of this.plugins in insertion order
    pluginUIComponents,  \* this.pluginUIComponents: own properties, key -> entry
    call,                \* the most recent call and its arguments
    outcome,             \* what that call did: returned value, exception, console.error lines
    ctxLog,              \* registrations made through a plugin context in the last PluginArea render
    \* ---- view-actions.tsx ----
    view,                \* the view configuration held by the owner of the menu
    fields,              \* the `fields` prop
    supportedLayouts,    \* the `supportedLayouts` prop
    interaction          \* the most recent interaction and what its handler did

rvars == <<plugins, pluginOrder, pluginUIComponents, call, outcome, ctxLog>>
vvars == <<view, fields, supportedLayouts, interaction>>
vars == <<plugins, pluginOrder, pluginUIComponents, call, outcome, ctxLog,
          view, fields, supportedLayouts, interaction>>

(***************************************************************************)
(* JavaScript values                                                       *)
(***************************************************************************)
Undefined == [t |-> "undefined"]
Null == [t |-> "null"]
Num(n) == [t |-> "number", v |-> n]
Str(s) == [t |-> "string", v |-> s]
Fn(f) == [t |-> "function", v |-> f]
Obj(o) == [t |-> "object", v |-> o]
EmptyMap == [k \in {} |-> Undefined]
EmptyObject == [t |-> "object", v |-> EmptyMap]

\* typeof x: null is reported as 'object'.
TypeOf(x) == IF x.t = "null" THEN "object" ELSE x.t

\* Reading a property of null or undefined throws a TypeError.
ThrowsOnPropertyRead(x) == x.t \in {"null", "undefined"}

\* x.p for an object; a missing property reads as undefined.
GetProp(x, p) ==
    IF x.t = "object" /\ p \in DOMAIN x.v THEN x.v[p]
    ELSE Undefined

\* lodash isFunction
isFunction(x) == x.t = "function"

\* JavaScript truthiness of the values the registry tests.
Truthy(x) ==
    CASE x.t \in {"undefined", "null"} -> FALSE
      [] x.t = "number" -> x.v # 0
      [] x.t = "string" -> x.v # <<>>
      [] OTHER -> TRUE

(***************************************************************************)
(* Strings                                                                 *)
(***************************************************************************)
LowerCase == {"a", "b", "c", "d", "e", "f", "g", "h", "i", "j", "k", "l", "m",
              "n", "o", "p", "q", "r", "s", "t", "u", "v", "w", "x", "y", "z"}
Digits == {"0", "1", "2", "3", "4", "5", "6", "7", "8", "9"}

\* /^[a-z][a-z0-9-]*$/.test( s )
MatchesPluginName(s) ==
    /\ Len(s) >= 1
    /\ s[1] \in LowerCase
    /\ \A i \in 2..Len(s) : s[i] \in LowerCase \cup Digits \cup {"-"}

NameA == <<"a">>
NameB == <<"b", "-", "2">>
NameConstructor == <<"c", "o", "n", "s", "t", "r", "u", "c", "t", "o", "r">>
NameUpper == <<"A", "b">>
NameDigitFirst == <<"1", "a">>
NameToString == <<"t", "o", "S", "t", "r", "i", "n", "g">>
UiOne == <<"u", "1">>
TypeSidebar == <<"s", "i", "d", "e", "b", "a", "r">>
TypeMenuItem == <<"m", "e", "n", "u">>

\* Keys every plain object inherits from Object.prototype (those used here).
ObjectPrototypeKeys == {NameConstructor, NameToString}

\* obj[ key ] on a plain object literal: an own property, else an inherited one.
Lookup(own, key) ==
    IF key \in DOMAIN own THEN own[key]
    ELSE IF key \in ObjectPrototypeKeys THEN Fn(<<"Object", "prototype">> \o key)
    ELSE Undefined

(***************************************************************************)
(* PluginRegistry                                                          *)
(***************************************************************************)
\* obj[ key ] = value on a plain object.
Assign(own, key, value) ==
    [k \in DOMAIN own \cup {key} |-> IF k = key THEN value ELSE own[k]]

\* The own keys after obj[ key ] = value: a new key goes last.
KeysAfterAssign(own, order, key) ==
    IF key \in DOMAIN own THEN order ELSE Append(order, key)

\* { ...obj, p: value }
WithProp(x, p, value) ==
    Obj([q \in DOMAIN x.v \cup {p} |-> IF q = p THEN value ELSE x.v[q]])

\* The callbacks hooked on 'editPost.registerPlugin'. A callback receives the
\* settings and returns plugin settings: the same ones, or settings with another
\* name, or settings with a property added.
Filters == {"none", "renameToB", "addIcon"}

\* applyFilters( 'editPost.registerPlugin', settings, settings.name )
applyFilters(filter, settings, name) ==
    CASE filter = "none" -> settings
      [] filter = "renameToB" -> WithProp(settings, "name", Str(NameB))
      [] filter = "addIcon" -> WithProp(settings, "icon", Str(<<"i">>))

MsgNoSettings == "No settings object provided!"
MsgNotString == "Plugin names must be strings."
MsgBadName == "Plugin names must include only lowercase alphanumeric characters or dashes, and start with a letter."
MsgAlreadyRegistered == "Plugin is already registered."
MsgBadRender == "The render property must be specified and must be a valid function."

\* A call that logs and returns null, leaving the registry as it is.
ReturnNull(log) ==
    [ret |-> Null, threw |-> FALSE, log |-> log, filtered |-> FALSE,
     plugins |-> plugins, order |-> pluginOrder]

\* A call that ends in an exception.
Throw(log) ==
    [ret |-> Undefined, threw |-> TRUE, log |-> log, filtered |-> FALSE,
     plugins |-> plugins, order |-> pluginOrder]

\* if ( this.plugins[ settings.name ] ) { console.error( ... ) }
AlreadyRegisteredFatal(name) ==
    [log |-> IF Truthy(Lookup(plugins, name)) THEN <<MsgAlreadyRegistered>> ELSE <<>>,
     abort |-> Truthy(Lookup(plugins, name))]

AlreadyRegisteredCheck(name) ==
    [log |-> IF Truthy(Lookup(plugins, name)) THEN <<MsgAlreadyRegistered>> ELSE <<>>,
     abort |-> FALSE]

\* settings.sidebar = {}
ResetSidebar(settings) == WithProp(settings, "sidebar", EmptyObject)

\* The key of this.plugins[ settings.name ] = settings, settings being the filtered ones.
StoreKeyUnfiltered(final, name) == name

StoreKey(final, name) == GetProp(final, "name").v

\* registerPlugin( settings ), with `filter` hooked on 'editPost.registerPlugin'.
registerPlugin(settings, filter) ==
    IF TypeOf(settings) # "object" THEN ReturnNull(<<MsgNoSettings>>)
    ELSE IF ThrowsOnPropertyRead(settings) THEN Throw(<<>>)
    ELSE LET name == GetProp(settings, "name") IN
    IF TypeOf(name) # "string" THEN ReturnNull(<<MsgNotString>>)
    ELSE IF ~MatchesPluginName(name.v) THEN ReturnNull(<<MsgBadName>>)
    ELSE LET dup == AlreadyRegisteredCheck(name.v) IN
    IF dup.abort THEN ReturnNull(dup.log)
    ELSE IF ~isFunction(GetProp(settings, "render"))
    THEN ReturnNull(dup.log \o <<MsgBadRender>>)
    ELSE LET final == applyFilters(filter, ResetSidebar(settings), name.v)
             key == StoreKey(final, name.v)
         IN [ret |-> final, threw |-> FALSE, log |-> dup.log, filtered |-> TRUE,
             plugins |-> Assign(plugins, key, final),
             order |-> KeysAfterAssign(plugins, pluginOrder, key)]

\* The arguments registerPlugin is called with: settings objects with and
\* without a usable name and render, one with a sidebar already set, an array,
\* and values that are no settings object.
NameInputs ==
    {Str(NameA), Str(NameB), Str(NameUpper), Str(NameDigitFirst), Num(7), Undefined}
RenderInputs == {Fn(<<"render">>), Undefined}
SettingsObjects ==
    {Obj([name |-> n, render |-> r]) : n \in NameInputs, r \in RenderInputs}
    \cup {Obj([name |-> Str(NameA), render |-> Fn(<<"render">>),
               sidebar |-> Str(<<"stale">>)])}
SettingsArguments ==
    SettingsObjects \cup
    {Undefined, Null, Num(7), Str(<<"a">>), Obj([length |-> Num(0)])}

RegisterPlugin ==
    \E settings \in SettingsArguments, filter \in Filters :
        LET r == registerPlugin(settings, filter) IN
        /\ plugins' = r.plugins
        /\ pluginOrder' = r.order
        \* the hook runs only when the settings pass validation
        /\ call' = [op |-> "registerPlugin", settings |-> settings,
                    filter |-> IF r.filtered THEN filter ELSE "notApplied"]
        /\ outcome' = [ret |-> r.ret, threw |-> r.threw, log |-> r.log]
        /\ ctxLog' = <<>>
        /\ UNCHANGED pluginUIComponents
        /\ UNCHANGED vvars

\* registerUIComponent( pluginName, uiNamespacedName, uiType )
UIEntry(pluginName, uiType) ==
    Obj([pluginName |-> pluginName, uiType |-> uiType])

registerUIComponent(components, pluginName, uiNamespacedName, uiType) ==
    Assign(components, uiNamespacedName, UIEntry(pluginName, uiType))

UINames == {UiOne, NameConstructor}
UITypes == {Str(TypeSidebar), Str(TypeMenuItem)}
DirectPluginNames == {Str(NameA)}

RegisterUIComponent ==
    \E pluginName \in DirectPluginNames, ui \in UINames, uiType \in UITypes :
        /\ pluginUIComponents' =
               registerUIComponent(pluginUIComponents, pluginName, ui, uiType)
        /\ call' = [op |-> "registerUIComponent", pluginName |-> pluginName,
                    ui |-> ui, uiType |-> uiType]
        /\ outcome' = [ret |-> Undefined, threw |-> FALSE, log |-> <<>>]
        /\ ctxLog' = <<>>
        /\ UNCHANGED <<plugins, pluginOrder>>
        /\ UNCHANGED vvars

\* const uiComponent = this.pluginUIComponents[ uiNamespacedName ] || null;
OrNull(x) == IF Truthy(x) THEN x ELSE Null

\* getRegisteredUIComponent( uiNamespacedName, uiType = null )
getRegisteredUIComponent(components, uiNamespacedName, uiTypeArg) ==
    LET uiType == IF uiTypeArg = Undefined THEN Null ELSE uiTypeArg
        uiComponent == OrNull(Lookup(components, uiNamespacedName))
    IN IF Truthy(uiType)
       THEN IF Truthy(uiComponent) /\ GetProp(uiComponent, "uiType") = uiType
            THEN uiComponent
            ELSE Null
       ELSE uiComponent

UITypeArguments == UITypes \cup {Undefined, Str(<<>>)}

GetRegisteredUIComponent ==
    \E ui \in UINames, uiType \in UITypeArguments :
        /\ call' = [op |-> "getRegisteredUIComponent", ui |-> ui, uiType |-> uiType]
        /\ outcome' = [ret |-> getRegisteredUIComponent(pluginUIComponents, ui, uiType),
                       threw |-> FALSE, log |-> <<>>]
        /\ ctxLog' = <<>>
        /\ UNCHANGED <<plugins, pluginOrder, pluginUIComponents>>
        /\ UNCHANGED vvars

(***************************************************************************)
(* PluginArea                                                              *)
(***************************************************************************)
\* What the elements returned by one plugin.render() register through the
\* context they are rendered in: calls of context.registerUIComponent( ui, uiType ).
RenderedRegistrations ==
    {<<>>,
     <<[ui |-> UiOne, uiType |-> Str(TypeSidebar)]>>,
     <<[ui |-> UiOne, uiType |-> Str(TypeMenuItem)],
       [ui |-> NameConstructor, uiType |-> Str(TypeSidebar)]>>}

\* pluginRegistry.registerUIComponent.bind( pluginRegistry, plugin.name )
BoundToFirstPlugin(plugin) == GetProp(plugins[pluginOrder[1]], "name")

BoundPluginName(plugin) == GetProp(plugin, "name")

\* The calls made through the context of the plugin under `key`, in order.
RECURSIVE ContextCalls(_, _, _, _)
ContextCalls(key, bound, regs, i) ==
    IF i > Len(regs) THEN <<>>
    ELSE <<[plugin |-> key, namespace |-> bound, ui |-> regs[i].ui,
            entry |-> UIEntry(bound, regs[i].uiType)]>>
         \o ContextCalls(key, bound, regs, i + 1)

\* map( pluginRegistry.plugins, plugin => ... ): one context per own key, in order.
RECURSIVE RenderPlugins(_, _)
RenderPlugins(i, registrations) ==
    IF i > Len(pluginOrder) THEN <<>>
    ELSE LET key == pluginOrder[i]
             bound == BoundPluginName(plugins[key])
         IN ContextCalls(key, bound, registrations[key], 1)
            \o RenderPlugins(i + 1, registrations)

\* The registry's components after the calls of a render, applied in order.
RECURSIVE ApplyContextCalls(_, _, _)
ApplyContextCalls(components, calls, i) ==
    IF i > Len(calls) THEN components
    ELSE ApplyContextCalls(
             registerUIComponent(components, calls[i].entry.v.pluginName,
                                 calls[i].ui, calls[i].entry.v.uiType),
             calls, i + 1)

\* The contexts PluginArea.render provides: { registerUIComponent, namespace }.
RenderedContexts ==
    [i \in 1..Len(pluginOrder) |->
        [key |-> pluginOrder[i],
         namespace |-> GetProp(plugins[pluginOrder[i]], "name"),
         boundTo |-> BoundPluginName(plugins[pluginOrder[i]])]]

PluginAreaRender ==
    \E registrations \in [DOMAIN plugins -> RenderedRegistrations] :
        LET calls == RenderPlugins(1, registrations) IN
        /\ pluginUIComponents' = ApplyContextCalls(pluginUIComponents, calls, 1)
        /\ ctxLog' = calls
        /\ call' = [op |-> "PluginArea.render", contexts |-> RenderedContexts]
        /\ outcome' = [ret |-> Undefined, threw |-> FALSE, log |-> <<>>]
        /\ UNCHANGED <<plugins, pluginOrder>>
        /\ UNCHANGED vvars

\* new PluginRegistry()
RegistryInit ==
    /\ plugins = EmptyMap
    /\ pluginOrder = <<>>
    /\ pluginUIComponents = EmptyMap
    /\ call = [op |-> "constructor"]
    /\ outcome = [ret |-> Undefined, threw |-> FALSE, log |-> <<>>]
    /\ ctxLog = <<>>

\* The menu is not rendered under RegistrySpec.
ViewIdle ==
    /\ view = Undefined
    /\ fields = <<>>
    /\ supportedLayouts = Undefined
    /\ interaction = [kind |-> "none"]

RegistryNext ==
    \/ RegisterPlugin
    \/ RegisterUIComponent
    \/ GetRegisteredUIComponent
    \/ PluginAreaRender

RegistryStart == RegistryInit /\ ViewIdle

RegistrySpec == RegistryStart /\ [][RegistryNext]_vars

(***************************************************************************)
(* view-actions.tsx                                                        *)
(***************************************************************************)
Arr(items) == [t |-> "array", v |-> items]

\* VIEW_LAYOUTS of ./layouts: the layouts the data views offer.
VIEW_LAYOUTS == <<"table", "grid", "list">>

\* SORTING_DIRECTIONS of ./constants.
SORTING_DIRECTIONS == <<"asc", "desc">>

PAGE_SIZE_VALUES == <<10, 20, 50, 100>>

\* The properties of a view record.
ViewKeys == {"type", "layout", "perPage", "page", "sort", "hiddenFields",
             "search", "filters", "custom"}

Includes(seq, x) == \E i \in 1..Len(seq) : seq[i] = x

\* view.hiddenFields?.includes( id )
HiddenIncludes(v, id) ==
    v.hiddenFields # Undefined /\ Includes(v.hiddenFields.v, id)

\* What a handler did: the views it passed to onChangeView, and whether it threw.
Called(newView) == [calls |-> <<newView>>, threw |-> FALSE, error |-> ""]
Thrown(message) == [calls |-> <<>>, threw |-> TRUE, error |-> message]

\* ViewTypeMenu: the onChange of a layout radio item, e.target.value = value.
ViewTypeOnChangeKeepsLayout(v, value) ==
    IF value \in {"list", "grid", "table"}
    THEN Called([v EXCEPT !.type = value])
    ELSE Thrown("Invalid dataview")

ViewTypeOnChange(v, value) ==
    IF value \in {"list", "grid", "table"}
    THEN Called([v EXCEPT !.type = value, !.layout = EmptyMap])
    ELSE Thrown("Invalid dataview")

\* PageSizeMenu: the onChange of the radio item of `size`.
PageSizeOnChangeKeepsPage(v, size) == Called([v EXCEPT !.perPage = size])

PageSizeOnChange(v, size) == Called([v EXCEPT !.perPage = size, !.page = 1])

\* FieldsVisibilityMenu: the onChange of the checkbox item of the field `id`.
FieldsVisibilityOnChangeAppends(v, id) ==
    Called([v EXCEPT !.hiddenFields =
        Arr((IF v.hiddenFields = Undefined THEN <<>> ELSE v.hiddenFields.v)
            \o <<id>>)])

FieldsVisibilityOnChange(v, id) ==
    Called([v EXCEPT !.hiddenFields =
        IF HiddenIncludes(v, id)
        THEN Arr(SelectSeq(v.hiddenFields.v, LAMBDA h : h # id))
        ELSE Arr((IF v.hiddenFields = Undefined THEN <<>> ELSE v.hiddenFields.v)
                 \o <<id>>)])

\* SortMenu: the onChange of the radio item of ( field `id`, direction ).
SortOnChangeDropsSearch(v, id, direction) ==
    Called([v EXCEPT !.sort = Obj([field |-> id, direction |-> direction]),
                     !.search = Undefined])

SortOnChange(v, id, direction) ==
    Called([v EXCEPT !.sort = Obj([field |-> id, direction |-> direction])])

\* ViewTypeMenu: the layouts offered; no menu when exactly one is.
AvailableViews ==
    IF supportedLayouts = Undefined THEN VIEW_LAYOUTS
    ELSE SelectSeq(VIEW_LAYOUTS, LAMBDA l : Includes(supportedLayouts.v, l))

ViewTypeMenuRendered == Len(AvailableViews) # 1

\* view.layout.mediaField
IsMediaField(v, id) ==
    "mediaField" \in DOMAIN v.layout /\ v.layout["mediaField"] = id

\* FieldsVisibilityMenu: the indices in `fields` of the hidable fields.
HidableFields(v) ==
    {i \in 1..Len(fields) :
        fields[i].enableHiding # FALSE /\ ~IsMediaField(v, fields[i].id)}

\* SortMenu: the indices in `fields` of the sortable fields.
SortableFields == {i \in 1..Len(fields) : fields[i].enableSorting # FALSE}

\* fields.find( ( field ) => field.id === view.sort?.field ): its index, 0 if none.
CurrentSortedField(v) ==
    IF v.sort = Undefined THEN 0
    ELSE IF \E i \in 1..Len(fields) : fields[i].id = v.sort.v.field
    THEN CHOOSE i \in 1..Len(fields) :
            /\ fields[i].id = v.sort.v.field
            /\ \A j \in 1..(i - 1) : fields[j].id # v.sort.v.field
    ELSE 0

\* SortMenu: `checked` of the radio item of ( fields[i], direction ).
IsCheckedAnyField(v, i, direction) ==
    /\ CurrentSortedField(v) # 0
    /\ v.sort.v.direction = direction

IsChecked(v, i, direction) ==
    /\ CurrentSortedField(v) # 0
    /\ v.sort.v.direction = direction
    /\ fields[i].id = fields[CurrentSortedField(v)].id

\* The radio items of the sort menu, all submenus together.
SortItems ==
    {<<i, SORTING_DIRECTIONS[d]>> :
        i \in SortableFields, d \in 1..Len(SORTING_DIRECTIONS)}

CheckedSortItems(v) == {it \in SortItems : IsChecked(v, it[1], it[2])}

\* The owner's onChangeView replaces its view by each one it is passed.
AfterCalls(v, calls) == IF calls = <<>> THEN v ELSE calls[Len(calls)]

\* One interaction: the handler runs on the current view.
Interact(kind, arg, result) ==
    /\ view' = AfterCalls(view, result.calls)
    /\ interaction' = [kind |-> kind, arg |-> arg, before |-> view,
                       calls |-> result.calls, threw |-> result.threw,
                       error |-> result.error]
    /\ UNCHANGED <<fields, supportedLayouts>>
    /\ UNCHANGED rvars

\* The change event of a layout radio item; e.target.value is a string.
LayoutEventValues == {"table", "grid", "list", "kanban"}

ChooseLayout ==
    /\ ViewTypeMenuRendered
    /\ Len(AvailableViews) > 0
    /\ \E value \in LayoutEventValues :
           Interact("layout", [value |-> value], ViewTypeOnChange(view, value))

ChoosePageSize ==
    \E s \in 1..Len(PAGE_SIZE_VALUES) :
        Interact("pageSize", [size |-> PAGE_SIZE_VALUES[s]],
                 PageSizeOnChange(view, PAGE_SIZE_VALUES[s]))

ToggleField ==
    \E i \in HidableFields(view) :
        Interact("toggle", [index |-> i, id |-> fields[i].id],
                 FieldsVisibilityOnChange(view, fields[i].id))

ChooseSort ==
    \E i \in SortableFields, d \in 1..Len(SORTING_DIRECTIONS) :
        Interact("sort", [index |-> i, id |-> fields[i].id,
                          direction |-> SORTING_DIRECTIONS[d]],
                 SortOnChange(view, fields[i].id, SORTING_DIRECTIONS[d]))

\* The props the menu is mounted with.
MaxPage == 2

Field(id, enableSorting, enableHiding) ==
    [id |-> id, enableSorting |-> enableSorting, enableHiding |-> enableHiding]

FieldLists ==
    {<<Field("title", TRUE, FALSE), Field("author", TRUE, TRUE),
       Field("image", FALSE, TRUE)>>,
     <<Field("title", TRUE, TRUE), Field("title", TRUE, TRUE)>>,
     <<Field("image", FALSE, FALSE)>>}

SupportedLayoutsProps == {Undefined, Arr(<<"grid", "table">>), Arr(<<"list">>)}

InitialLayouts ==
    {[type |-> "table", layout |-> EmptyMap],
     [type |-> "grid", layout |-> [mediaField |-> "image", primaryField |-> "title"]]}

InitialViews ==
    {[type |-> tl.type, layout |-> tl.layout, perPage |-> 20, page |-> p,
      sort |-> s, hiddenFields |-> h, search |-> Str(<<"q">>),
      filters |-> Arr(<<"f">>), custom |-> Num(1)] :
        tl \in InitialLayouts, p \in 1..MaxPage,
        s \in {Undefined, Obj([field |-> "date", direction |-> "desc"])},
        h \in {Undefined, Arr(<<"author">>), Arr(<<"title", "title">>)}}

ViewInit ==
    /\ view \in InitialViews
    /\ fields \in FieldLists
    /\ supportedLayouts \in SupportedLayoutsProps
    /\ interaction = [kind |-> "none"]

\* No registry call is made under ViewSpec.
RegistryIdle ==
    /\ plugins = EmptyMap
    /\ pluginOrder = <<>>
    /\ pluginUIComponents = EmptyMap
    /\ call = [op |-> "constructor"]
    /\ outcome = [ret |-> Undefined, threw |-> FALSE, log |-> <<>>]
    /\ ctxLog = <<>>

ViewStart == ViewInit /\ RegistryIdle

ViewNext ==
    \/ ChooseLayout
    \/ ChoosePageSize
    \/ ToggleField
    \/ ChooseSort

ViewSpec == ViewStart /\ [][ViewNext]_vars

(***************************************************************************)
(* Properties of the plugin registry (RegistrySpec)                        *)
(***************************************************************************)
\* Settings a call of registerPlugin accepts: an object whose name is a string
\* of the required form and whose render is a function.
ValidSettings(x) ==
    /\ x.t = "object"
    /\ GetProp(x, "name").t = "string"
    /\ MatchesPluginName(GetProp(x, "name").v)
    /\ GetProp(x, "render").t = "function"

\* The step is a registerPlugin call with valid settings whose name is registered.
DuplicateRegistration ==
    /\ call'.op = "registerPlugin"
    /\ ValidSettings(call'.settings)
    /\ GetProp(call'.settings, "name").v \in DOMAIN plugins

\* C1 as stated: registering valid settings under a name that is already
\* registered logs an error and still succeeds: the call returns the new
\* settings (not null), plugins[name] then holds them, and every other
\* registered plugin is unchanged.
C1_DuplicateReplacesUnderGivenName ==
    [][DuplicateRegistration =>
        LET name == GetProp(call'.settings, "name").v IN
        /\ Includes(outcome'.log, MsgAlreadyRegistered)
        /\ ~outcome'.threw
        /\ outcome'.ret # Null
        /\ name \in DOMAIN plugins'
        /\ plugins'[name] = outcome'.ret
        /\ \A k \in DOMAIN plugins \ {name} :
               k \in DOMAIN plugins' /\ plugins'[k] = plugins[k]]_vars

\* C1 amended: registering valid settings under a name that is already
\* registered logs an error and still succeeds: the call returns the filtered
\* settings r (not null), plugins[r.name] then holds r (which is plugins[name]
\* whenever the filter leaves the name as it is), and every plugin registered
\* under a key other than r.name is unchanged.
C1_DuplicateWarnsAndStoresUnderFinalName ==
    [][DuplicateRegistration =>
        LET name == GetProp(call'.settings, "name").v
            final == GetProp(outcome'.ret, "name")
        IN
        /\ Includes(outcome'.log, MsgAlreadyRegistered)
        /\ ~outcome'.threw
        /\ outcome'.ret # Null
        /\ final.t = "string"
        /\ final.v \in DOMAIN plugins'
        /\ plugins'[final.v] = outcome'.ret
        /\ (call'.filter # "renameToB" => final.v = name)
        /\ \A k \in DOMAIN plugins \ {final.v} :
               k \in DOMAIN plugins' /\ plugins'[k] = plugins[k]]_vars

\* A registered name was registered again while the filter renamed the plugin:
\* the call warned and succeeded, and the entry under the given name is not the
\* returned one.
C1_Witness ==
    /\ call.op = "registerPlugin"
    /\ ValidSettings(call.settings)
    /\ Includes(outcome.log, MsgAlreadyRegistered)
    /\ outcome.ret # Null
    /\ GetProp(call.settings, "name").v \in DOMAIN plugins
    /\ plugins[GetProp(call.settings, "name").v] # outcome.ret
    /\ plugins[GetProp(outcome.ret, "name").v] = outcome.ret

\* An argument registerPlugin has to reject: no settings object (undefined,
\* null, a non-object), a name that is no string or not of the required form,
\* or a render that is no function.
InvalidArgument(x) ==
    \/ x.t \in {"undefined", "null"}
    \/ x.t # "object"
    \/ GetProp(x, "name").t # "string"
    \/ ~MatchesPluginName(GetProp(x, "name").v)
    \/ GetProp(x, "render").t # "function"

\* C2: registerPlugin reports every invalid argument by returning null, without
\* throwing and without changing plugins or pluginUIComponents.
C2_InvalidInputReturnsNull ==
    [][(call'.op = "registerPlugin" /\ InvalidArgument(call'.settings)) =>
        /\ ~outcome'.threw
        /\ outcome'.ret = Null
        /\ plugins' = plugins
        /\ pluginOrder' = pluginOrder
        /\ pluginUIComponents' = pluginUIComponents]_vars

\* C3: a registerPlugin call that passes validation returns the result of the
\* 'editPost.registerPlugin' filter applied to the settings with sidebar reset
\* to {}, the registry holds that value under the key equal to its name, and
\* every entry k of plugins has plugins[k].name = k.
C3_StoredUnderOwnName ==
    /\ \A k \in DOMAIN plugins : GetProp(plugins[k], "name") = Str(k)
    /\ (call.op = "registerPlugin" /\ ValidSettings(call.settings)) =>
        /\ ~outcome.threw
        /\ outcome.ret =
               applyFilters(call.filter,
                            WithProp(call.settings, "sidebar", EmptyObject),
                            GetProp(call.settings, "name").v)
        /\ GetProp(outcome.ret, "sidebar") = EmptyObject
        /\ GetProp(outcome.ret, "name").v \in DOMAIN plugins
        /\ plugins[GetProp(outcome.ret, "name").v] = outcome.ret

\* A plugin given as "a" was renamed by the filter and is held under "b-2".
C3_Witness ==
    /\ call.op = "registerPlugin"
    /\ call.filter = "renameToB"
    /\ GetProp(call.settings, "name") = Str(NameA)
    /\ GetProp(call.settings, "sidebar") = Str(<<"stale">>)
    /\ NameB \in DOMAIN plugins
    /\ plugins[NameB] = outcome.ret

\* C4: getRegisteredUIComponent( id, uiType ) returns the entry registered under
\* id (that of the most recent registerUIComponent call with that id) and null
\* when there is none; with a uiType argument it returns the entry only if the
\* entry's uiType equals the argument, and null otherwise.
C4_LookupReturnsEntryOrNull ==
    (call.op = "getRegisteredUIComponent") =>
        LET registered == call.ui \in DOMAIN pluginUIComponents IN
        outcome.ret =
            IF ~registered THEN Null
            ELSE IF call.uiType = Undefined THEN pluginUIComponents[call.ui]
            ELSE IF GetProp(pluginUIComponents[call.ui], "uiType") = call.uiType
            THEN pluginUIComponents[call.ui]
            ELSE Null

\* C6: PluginArea renders every registered plugin exactly once, in a context
\* whose namespace is the plugin's name and whose registerUIComponent is bound
\* to that name; every entry created through that context while plugin P is
\* rendered has pluginName = P, and P is a key of plugins.
C6_ComponentsRegisterUnderRenderingPlugin ==
    (call.op = "PluginArea.render") =>
        /\ \A k \in DOMAIN plugins :
               Cardinality({i \in DOMAIN call.contexts : call.contexts[i].key = k}) = 1
        /\ \A i \in DOMAIN call.contexts :
               /\ call.contexts[i].key \in DOMAIN plugins
               /\ call.contexts[i].namespace = Str(call.contexts[i].key)
               /\ call.contexts[i].boundTo = Str(call.contexts[i].key)
        /\ \A i \in DOMAIN ctxLog :
               /\ GetProp(ctxLog[i].entry, "pluginName") = Str(ctxLog[i].plugin)
               /\ ctxLog[i].plugin \in DOMAIN plugins
               /\ ctxLog[i].ui \in DOMAIN pluginUIComponents
        /\ \A u \in {ctxLog[i].ui : i \in DOMAIN ctxLog} :
               GetProp(pluginUIComponents[u], "pluginName").v \in DOMAIN plugins

\* Two plugins were rendered and each registered a component under its own name.
C6_Witness ==
    /\ call.op = "PluginArea.render"
    /\ Len(call.contexts) = 2
    /\ \E i, j \in DOMAIN ctxLog :
           /\ ctxLog[i].plugin # ctxLog[j].plugin
           /\ ctxLog[i].ui # ctxLog[j].ui
    /\ \E u \in DOMAIN pluginUIComponents :
           GetProp(pluginUIComponents[u], "pluginName") = Str(NameB)

(***************************************************************************)
(* Properties of the view-options menu (ViewSpec)                          *)
(***************************************************************************)
\* The hidden fields of a view as a list; none when hiddenFields is absent.
HiddenList(v) == IF v.hiddenFields = Undefined THEN <<>> ELSE v.hiddenFields.v

HiddenSet(v) == {HiddenList(v)[i] : i \in 1..Len(HiddenList(v))}

NoDuplicates(seq) == \A i, j \in 1..Len(seq) : seq[i] = seq[j] => i = j

DistinctIds == \A i, j \in 1..Len(fields) : fields[i].id = fields[j].id => i = j

Interacted == interaction.kind # "none"

\* The user picked one of the items the menu shows (for a layout: one of the
\* available layouts).
UserChoice ==
    /\ Interacted
    /\ interaction.kind = "layout" =>
           Includes(AvailableViews, interaction.arg.value)

\* The properties of the view an interaction of this kind is to change.
ChangedKeys(kind) ==
    CASE kind = "layout" -> {"type", "layout"}
      [] kind = "pageSize" -> {"perPage", "page"}
      [] kind = "toggle" -> {"hiddenFields"}
      [] kind = "sort" -> {"sort"}

\* C5: each interaction replaces the view by exactly one onChangeView call whose
\* argument is the current view with only that interaction's properties changed
\* (layout: type, layout; page size: perPage, page; field toggle: hiddenFields;
\* sort: sort); every other property is carried over.
C5_InteractionChangesOnlyItsFields ==
    UserChoice =>
        /\ ~interaction.threw
        /\ Len(interaction.calls) = 1
        /\ view = interaction.calls[1]
        /\ DOMAIN interaction.calls[1] = DOMAIN interaction.before
        /\ \A k \in ViewKeys \ ChangedKeys(interaction.kind) :
               interaction.calls[1][k] = interaction.before[k]

\* A layout was chosen on a view with a search, filters and hidden fields, and
\* they are still there.
C5_Witness ==
    /\ UserChoice
    /\ interaction.kind = "layout"
    /\ interaction.before.type # view.type
    /\ view.hiddenFields = Arr(<<"author">>)
    /\ view.search = Str(<<"q">>)
    /\ view.page = MaxPage

\* C7: with distinct field ids at most one radio item of the sort menu is
\* checked, and after the user picks ( f, d ) the view has
\* sort = { field: f, direction: d } and exactly the item ( f, d ) is checked.
C7_OneSortItemChecked ==
    DistinctIds =>
        /\ Cardinality(CheckedSortItems(view)) <= 1
        /\ interaction.kind = "sort" =>
            /\ view.sort = Obj([field |-> interaction.arg.id,
                                direction |-> interaction.arg.direction])
            /\ CheckedSortItems(view) =
                   {<<interaction.arg.index, interaction.arg.direction>>}

\* An item of another submenu was checked before the pick and is not after it.
C7_Witness ==
    /\ DistinctIds
    /\ interaction.kind = "sort"
    /\ \E it \in CheckedSortItems(interaction.before) :
           /\ it[1] # interaction.arg.index
           /\ it \notin CheckedSortItems(view)
    /\ Cardinality(CheckedSortItems(view)) = 1

\* C8: after a page-size selection the view has page = 1 and perPage equal to
\* the selected size, one of 10, 20, 50, 100; no other interaction changes page
\* or perPage.
C8_PageSizeResetsPage ==
    /\ interaction.kind = "pageSize" =>
        /\ view.page = 1
        /\ view.perPage = interaction.arg.size
        /\ interaction.arg.size \in {10, 20, 50, 100}
    /\ interaction.kind \in {"layout", "toggle", "sort"} =>
        /\ view.page = interaction.before.page
        /\ view.perPage = interaction.before.perPage

\* A page size was chosen on a later page.
C8_Witness ==
    /\ interaction.kind = "pageSize"
    /\ interaction.before.page > 1
    /\ interaction.before.perPage # view.perPage
    /\ view.page = 1

\* C9: choosing 'list', 'grid' or 'table' passes onChangeView the view with type
\* set to that value and layout set to {}; any other value makes the handler
\* throw 'Invalid dataview' without calling onChangeView, and the view stays.
C9_LayoutSwitchesOrThrows ==
    interaction.kind = "layout" =>
        IF interaction.arg.value \in {"list", "grid", "table"}
        THEN /\ ~interaction.threw
             /\ Len(interaction.calls) = 1
             /\ interaction.calls[1].type = interaction.arg.value
             /\ DOMAIN interaction.calls[1].layout = {}
             /\ view = interaction.calls[1]
        ELSE /\ interaction.threw
             /\ interaction.error = "Invalid dataview"
             /\ interaction.calls = <<>>
             /\ view = interaction.before

\* A layout was chosen on a view whose layout had a mediaField, which is dropped.
C9_Witness ==
    /\ interaction.kind = "layout"
    /\ "mediaField" \in DOMAIN interaction.before.layout
    /\ interaction.before.type # view.type
    /\ DOMAIN view.layout = {}

\* C10: toggling a field that is not hidden appends it to hiddenFields, toggling
\* a hidden one removes it, so toggling the same field twice gives the set of
\* hidden fields back; a duplicate-free (or absent) hiddenFields stays
\* duplicate-free; only a field with enableHiding not false that is not the
\* layout's mediaField is toggled, and no other field enters or leaves
\* hiddenFields.
C10_ToggleIsInvolution ==
    /\ interaction.kind = "toggle" =>
        LET id == interaction.arg.id
            before == interaction.before
            again == AfterCalls(view, FieldsVisibilityOnChange(view, id).calls)
        IN
        /\ id \notin HiddenSet(before) => HiddenList(view) = Append(HiddenList(before), id)
        /\ id \in HiddenSet(before) =>
            /\ id \notin HiddenSet(view)
            /\ HiddenSet(view) = HiddenSet(before) \ {id}
        /\ HiddenSet(again) = HiddenSet(before)
        /\ interaction.arg.index \in HidableFields(view)
        /\ \E i \in 1..Len(fields) :
               /\ fields[i].id = id
               /\ fields[i].enableHiding # FALSE
               /\ ~IsMediaField(before, id)
        /\ \A x \in (HiddenSet(view) \cup HiddenSet(before)) \ {id} :
               x \in HiddenSet(view) <=> x \in HiddenSet(before)
    /\ Interacted =>
        (NoDuplicates(HiddenList(interaction.before)) => NoDuplicates(HiddenList(view)))
    /\ interaction.kind \in {"layout", "pageSize", "sort"} =>
        view.hiddenFields = interaction.before.hiddenFields

\* A hidden field was toggled and is shown again, the other hidden field kept.
C10_Witness ==
    /\ interaction.kind = "toggle"
    /\ interaction.arg.id \in HiddenSet(interaction.before)
    /\ interaction.arg.id \notin HiddenSet(view)
    /\ HiddenSet(view) # {}

====
